---- MODULE Spec2Model ----
(***************************************************************************)
(* Model of @poppinss/module-methods-extractor (src/src/Extractor.ts).     *)
(*                                                                         *)
(* The Extractor parses a module with the TypeScript parser, locates the   *)
(* module's CommonJS / ESM default export among the top-level statements,  *)
(* resolves it (identifier, assignment chain) and lists the methods of the *)
(* exported class or object literal.  Results are kept in a QuickLRU       *)
(* cache keyed by the trimmed source text.                                 *)
(*                                                                         *)
(* Syntax-tree nodes are records of one shape:                             *)
(*   kind      ts.SyntaxKind of the node                                   *)
(*   text      Identifier.text; the name of a class declaration; the       *)
(*             operator token of a BinaryExpression                        *)
(*   modifiers the kinds of node.modifiers ({} when node.modifiers is      *)
(*             undefined)                                                  *)
(*   kids      the child nodes, read through the accessors below           *)
(*   start     node.getStart(sourceFile)                                   *)
(*   body      whether a function-like member has a body                   *)
(* null / undefined is the node Null.                                      *)
(***************************************************************************)
EXTENDS Integers, Sequences, FiniteSets, TLC

VARIABLES
    fixture,   \* the syntax tree the parser makes of the module under test
    cache,     \* Extractor.cache, the QuickLRU instance
    call,      \* the last extract call: what it did and what it returned
    earlier,   \* one of the calls made before the last one, kept to compare with
    run        \* the extract call in progress, when its steps are taken one by one

vars == <<fixture, cache, call, earlier, run>>

----------------------------------------------------------------------------
(* Bounds of the model *)

\* stand-in for QuickLRU's maxSize (1000 in the code): entries per generation
CacheMaxSize == 2
\* longest assignment chain, counted in "=" of the export statement
MaxHops == 5
\* most members of a class body / object literal
MaxMembers == 2
\* most top-level statements of a module
MaxStatements == 3

----------------------------------------------------------------------------
(* Syntax tree *)

Node(kind, text, modifiers, kids, start, body) ==
    [kind |-> kind, text |-> text, modifiers |-> modifiers, kids |-> kids,
     start |-> start, body |-> body]

Null == Node("null", "", {}, <<>>, 0, FALSE)

\* a class declaration without a name (export default class { })
NoName == ""

isExpressionStatement(n)         == n.kind = "ExpressionStatement"
isBinaryExpression(n)            == n.kind = "BinaryExpression"
isPropertyAccessExpression(n)    == n.kind = "PropertyAccessExpression"
isIdentifier(n)                  == n.kind = "Identifier"
isExportAssignment(n)            == n.kind = "ExportAssignment"
isClassDeclaration(n)            == n.kind = "ClassDeclaration"
isClassExpression(n)             == n.kind = "ClassExpression"
isObjectLiteralExpression(n)     == n.kind = "ObjectLiteralExpression"
isVariableStatement(n)           == n.kind = "VariableStatement"
isMethodDeclaration(n)           == n.kind = "MethodDeclaration"

\* node.expression of an ExpressionStatement, ExportAssignment, PropertyAccessExpression
expressionOf(n) == n.kids[1]
\* node.left / node.right of a BinaryExpression
leftOf(n)  == n.kids[1]
rightOf(n) == n.kids[2]
\* node.name of a PropertyAccessExpression
accessNameOf(n) == n.kids[2]
\* member.name of a class element / object literal element, declaration.name
nameOf(n) == n.kids[1]
\* declaration.initializer (undefined when the declaration has none)
initializerOf(d) == IF Len(d.kids) >= 2 THEN d.kids[2] ELSE Null
\* class.members, objectLiteral.properties, declarationList.declarations
membersOf(n)      == n.kids
propertiesOf(n)   == n.kids
declarationsOf(n) == n.kids

\* the indices of a sequence, and the least index with a property
Indices(seq) == 1..Len(seq)
Least(S) == CHOOSE i \in S : \A j \in S : i <= j

----------------------------------------------------------------------------
(* Export Locator *)

\* The expression next to `module.exports` or `exports`, or null.
findCommonJsExportExpression(node) ==
    IF ~isExpressionStatement(node) \/ ~isBinaryExpression(expressionOf(node))
    THEN Null
    ELSE LET left == leftOf(expressionOf(node))
             right == rightOf(expressionOf(node))
         IN  IF /\ isPropertyAccessExpression(left)
                /\ isIdentifier(expressionOf(left))
                /\ expressionOf(left).text = "module"
                /\ isIdentifier(accessNameOf(left))
                /\ accessNameOf(left).text = "exports"
             THEN right
             ELSE IF isIdentifier(left) /\ left.text = "exports"
             THEN right
             ELSE Null

\* The expression of an export assignment, or the class declaration that
\* carries a `default` modifier, or null.
findEsmExportExpression(node) ==
    IF isExportAssignment(node)
    THEN expressionOf(node)
    ELSE IF ~isClassDeclaration(node) \/ node.modifiers = {}
    THEN Null
    ELSE IF "DefaultKeyword" \in node.modifiers
    THEN node
    ELSE Null

\* findCommonJsExportExpression(statement) || findEsmExportExpression(statement)
exportOfStatement(statement) ==
    IF findCommonJsExportExpression(statement) # Null
    THEN findCommonJsExportExpression(statement)
    ELSE findEsmExportExpression(statement)

\* a locator that lets a later matching statement overwrite the candidate
getExportExpressionLastMatch(source) ==
    LET hits == {i \in Indices(source.statements) :
                    exportOfStatement(source.statements[i]) # Null}
    IN  IF hits = {} THEN Null
        ELSE exportOfStatement(source.statements[CHOOSE i \in hits : \A j \in hits : j <= i])

\* The loop over source.statements, left at the first statement that matches.
getExportExpression(source) ==
    LET hits == {i \in Indices(source.statements) :
                    exportOfStatement(source.statements[i]) # Null}
    IN  IF hits = {} THEN Null
        ELSE exportOfStatement(source.statements[Least(hits)])

----------------------------------------------------------------------------
(* Method Enumerator *)

isPublicMethod(expression) ==
    IF expression.modifiers = {}
    THEN TRUE
    ELSE ~(\E modifier \in expression.modifiers :
              modifier = "PrivateKeyword" \/ modifier = "ProtectedKeyword")

\* sourceFile.getLineAndCharacterOfPosition(position).line: the 0-based index
\* of the last line that starts at or before the position
lineOfPosition(sourceFile, position) ==
    Cardinality({i \in Indices(sourceFile.lineStarts) :
                    sourceFile.lineStarts[i] <= position}) - 1

\* a record with the 0-based line of getLineAndCharacterOfPosition
methodRecordZeroBased(sourceFile, member) ==
    [name |-> nameOf(member).text,
     lineno |-> lineOfPosition(sourceFile, member.start)]

\* the record the .map callbacks build
methodRecord(sourceFile, member) ==
    [name |-> nameOf(member).text,
     lineno |-> lineOfPosition(sourceFile, member.start) + 1]

\* .map over a sequence of members
mapMembers(sourceFile, members) ==
    [i \in 1..Len(members) |-> methodRecord(sourceFile, members[i])]

\* the class filter without the visibility test
extractClassMethodsNoVisibility(sourceFile, expression) ==
    mapMembers(sourceFile,
        SelectSeq(membersOf(expression),
            LAMBDA member : isMethodDeclaration(member) /\ isIdentifier(nameOf(member))))

extractClassMethods(sourceFile, expression) ==
    mapMembers(sourceFile,
        SelectSeq(membersOf(expression),
            LAMBDA member : /\ isMethodDeclaration(member)
                            /\ isIdentifier(nameOf(member))
                            /\ isPublicMethod(member)))

extractObjectLiteralMethods(sourceFile, expression) ==
    mapMembers(sourceFile,
        SelectSeq(propertiesOf(expression),
            LAMBDA member : isMethodDeclaration(member) /\ isIdentifier(nameOf(member))))

----------------------------------------------------------------------------
(* Identifier Resolver *)

\* declarations.find(...): the first declaration that binds the identifier
matchingDeclaration(child, identifier) ==
    LET hits == {i \in Indices(declarationsOf(child)) :
                    /\ isIdentifier(nameOf(declarationsOf(child)[i]))
                    /\ nameOf(declarationsOf(child)[i]).text = identifier}
    IN  IF hits = {} THEN Null ELSE declarationsOf(child)[Least(hits)]

\* whether the loop of resolveIdentifier returns at this statement
definesIdentifier(child, identifier) ==
    \/ isClassDeclaration(child) /\ child.text # NoName /\ child.text = identifier
    \/ isVariableStatement(child) /\ matchingDeclaration(child, identifier) # Null

\* a resolver that resolves once more a value that is itself an identifier
resolveIdentifierAgain(sourceFile, identifier) ==
    LET once(name) ==
            LET hits == {i \in Indices(sourceFile.statements) :
                            definesIdentifier(sourceFile.statements[i], name)}
                child == sourceFile.statements[Least(hits)]
            IN  IF hits = {} THEN Null
                ELSE IF isClassDeclaration(child) /\ child.text = name
                THEN child
                ELSE initializerOf(matchingDeclaration(child, name))
        first == once(identifier)
    IN  IF first # Null /\ isIdentifier(first) THEN once(first.text) ELSE first

resolveIdentifier(sourceFile, identifier) ==
    LET hits == {i \in Indices(sourceFile.statements) :
                    definesIdentifier(sourceFile.statements[i], identifier)}
        child == sourceFile.statements[Least(hits)]
    IN  IF hits = {} THEN Null
        ELSE IF isClassDeclaration(child) /\ child.text # NoName /\ child.text = identifier
        THEN child
        ELSE initializerOf(matchingDeclaration(child, identifier))

----------------------------------------------------------------------------
(* Assignment-Chain Unwinder *)

\* an unwinder that returns the right operand without descending
findBinaryExpressionBranchShallow(expression, level) ==
    IF level = 3 THEN Null
    ELSE IF isBinaryExpression(rightOf(expression)) THEN Null
    ELSE rightOf(expression)

\* The recursive call passes `level++`: the value of level before the
\* increment, so every call of the recursion runs with level = 0.
RECURSIVE findBinaryExpressionBranchRec(_, _)
findBinaryExpressionBranchRec(expression, level) ==
    IF level = 3 THEN Null
    ELSE IF isBinaryExpression(rightOf(expression))
    THEN findBinaryExpressionBranchRec(rightOf(expression), level)
    ELSE rightOf(expression)

findBinaryExpressionBranch(expression, level) ==
    findBinaryExpressionBranchRec(expression, level)

----------------------------------------------------------------------------
(* Results: ExtractorOutput | null *)

\* the null result
Absent == [kind |-> "null", methods |-> <<>>]
Output(kind, methods) == [kind |-> kind, methods |-> methods]
\* an exception leaving extract (no statement of extract returns it)
Thrown == [kind |-> "throw", methods |-> <<>>]

----------------------------------------------------------------------------
(* QuickLRU (quick-lru 5.1.1), the two-generation cache behind this.cache: *)
(* an entry lives in `cache`; when `size` reaches maxSize the generation    *)
(* becomes `oldCache` and the former oldCache is dropped.                   *)

EmptyMap == <<>>
NewQuickLRU == [cache |-> EmptyMap, oldCache |-> EmptyMap, size |-> 0]

WithoutKey(map, key) == [k \in DOMAIN map \ {key} |-> map[k]]

lruHas(lru, key) == key \in DOMAIN lru.cache \/ key \in DOMAIN lru.oldCache

\* QuickLRU._set
lruInsert(lru, key, value) ==
    LET filled == (key :> value) @@ lru.cache
    IN  IF lru.size + 1 >= CacheMaxSize
        THEN [cache |-> EmptyMap, oldCache |-> filled, size |-> 0]
        ELSE [cache |-> filled, oldCache |-> lru.oldCache, size |-> lru.size + 1]

\* QuickLRU.set
lruSet(lru, key, value) ==
    IF key \in DOMAIN lru.cache
    THEN [lru EXCEPT !.cache = (key :> value) @@ lru.cache]
    ELSE lruInsert(lru, key, value)

\* QuickLRU.get of a key the cache has: the value, and the cache afterwards
\* (an entry of the old generation moves to the current one)
lruGet(lru, key) ==
    IF key \in DOMAIN lru.cache
    THEN [value |-> lru.cache[key], lru |-> lru]
    ELSE [value |-> lru.oldCache[key],
          lru |-> lruInsert([lru EXCEPT !.oldCache = WithoutKey(lru.oldCache, key)],
                            key, lru.oldCache[key])]

----------------------------------------------------------------------------
(* Source text and options *)

\* A source text is a sequence of characters; the model writes a module's
\* body as one opaque character and keeps the whitespace around it.
Whitespace == {" ", "\n"}

RECURSIVE trimStart(_)
trimStart(source) ==
    IF source # <<>> /\ Head(source) \in Whitespace
    THEN trimStart(Tail(source))
    ELSE source

RECURSIVE trimEnd(_)
trimEnd(source) ==
    IF source # <<>> /\ source[Len(source)] \in Whitespace
    THEN trimEnd(SubSeq(source, 1, Len(source) - 1))
    ELSE source

\* String.prototype.trim
trim(source) == trimEnd(trimStart(source))

\* a key the caller's options object does not have
Undefined == "undefined"

\* Object.assign({ filename: 'anonymous', scriptTarget: ES2018 }, options)
normalizeOptions(options) ==
    [filename |-> IF options.filename = Undefined THEN "anonymous" ELSE options.filename,
     scriptTarget |-> IF options.scriptTarget = Undefined THEN "ES2018"
                      ELSE options.scriptTarget]

----------------------------------------------------------------------------
(* Parsing *)

\* what createSourceFile returns when it could not process the file
NullSourceFile == [statements |-> <<>>, lineStarts |-> <<>>]

\* An outcome of ts.createSourceFile: it threw, or it returned a source file.
Parsed(sourceFile) == [threw |-> FALSE, file |-> sourceFile]
ParserFault == [threw |-> TRUE, file |-> NullSourceFile]

----------------------------------------------------------------------------
(* Syntax trees the parser produces.  A statement with index i starts at    *)
(* offset (i - 1) * StatementSpan; the j-th member of a class body or       *)
(* object literal starts 2 * j after its container.                         *)

StatementSpan == 2 * MaxMembers + 2
StatementStart(i) == (i - 1) * StatementSpan
MemberStart(container, j) == container + 2 * j

Id(name, at) == Node("Identifier", name, {}, <<>>, at, FALSE)
ModuleExports(at) ==
    Node("PropertyAccessExpression", "", {}, <<Id("module", at), Id("exports", at)>>, at, FALSE)
Binary(left, operator, right) ==
    Node("BinaryExpression", operator, {}, <<left, right>>, left.start, FALSE)
ExpressionStatement(expression) ==
    Node("ExpressionStatement", "", {}, <<expression>>, expression.start, FALSE)
ExportAssignment(expression, at) ==
    Node("ExportAssignment", "", {}, <<expression>>, at, FALSE)
ClassDeclaration(name, modifiers, members, at) ==
    Node("ClassDeclaration", name, modifiers, members, at, FALSE)
ClassExpression(members, at) == Node("ClassExpression", NoName, {}, members, at, FALSE)
ObjectLiteral(properties, at) ==
    Node("ObjectLiteralExpression", "", {}, properties, at, FALSE)
FunctionExpression(at) == Node("FunctionExpression", "", {}, <<>>, at, TRUE)
NumericLiteral(at) == Node("NumericLiteral", "5", {}, <<>>, at, FALSE)
VariableDeclaration(name, initializer, at) ==
    Node("VariableDeclaration", "", {},
         IF initializer = Null THEN <<Id(name, at)>> ELSE <<Id(name, at), initializer>>,
         at, FALSE)
VariableStatement(modifiers, declarations, at) ==
    Node("VariableStatement", "", modifiers, declarations, at, FALSE)

Method(name, modifiers, body, at) ==
    Node("MethodDeclaration", "", modifiers, <<Id(name, at)>>, at, body)
ComputedMethod(at) ==
    Node("MethodDeclaration", "", {},
         <<Node("ComputedPropertyName", "", {}, <<Id("key", at)>>, at, FALSE)>>, at, TRUE)
StringMethod(at) ==
    Node("MethodDeclaration", "", {},
         <<Node("StringLiteral", "index", {}, <<>>, at, FALSE)>>, at, TRUE)
Constructor(at) == Node("Constructor", "", {}, <<>>, at, TRUE)
PropertyAssignment(name, at) ==
    Node("PropertyAssignment", "", {}, <<Id(name, at), FunctionExpression(at)>>, at, FALSE)
GetAccessor(name, at) == Node("GetAccessor", "", {}, <<Id(name, at)>>, at, TRUE)

SourceFile(statements, lineStarts) == [statements |-> statements, lineStarts |-> lineStarts]

\* the members a class body can hold at an offset
ClassMembersAt(at) ==
    {Method("index", modifiers, TRUE, at) :
        modifiers \in {{}, {"PublicKeyword", "AsyncKeyword"}, {"PrivateKeyword"},
                       {"ProtectedKeyword", "StaticKeyword"}}}
    \cup {Method("store", {}, TRUE, at), Method("index", {}, FALSE, at),
          ComputedMethod(at), Constructor(at), GetAccessor("index", at)}

\* the properties an object literal can hold at an offset (the parser keeps a
\* modifier written before a method of an object literal)
ObjectMembersAt(at) ==
    {Method("index", {}, TRUE, at), Method("index", {"PrivateKeyword"}, TRUE, at),
     Method("store", {"AsyncKeyword"}, TRUE, at),
     StringMethod(at), PropertyAssignment("index", at), GetAccessor("index", at)}

RECURSIVE ClassBodies(_, _)
ClassBodies(container, n) ==
    IF n = 0 THEN {<<>>}
    ELSE {Append(members, member) :
             members \in ClassBodies(container, n - 1),
             member \in ClassMembersAt(MemberStart(container, n))}

RECURSIVE ObjectBodies(_, _)
ObjectBodies(container, n) ==
    IF n = 0 THEN {<<>>}
    ELSE {Append(members, member) :
             members \in ObjectBodies(container, n - 1),
             member \in ObjectMembersAt(MemberStart(container, n))}

RECURSIVE SortedSeq(_)
SortedSeq(S) == IF S = {} THEN <<>> ELSE <<Least(S)>> \o SortedSeq(S \ {Least(S)})

\* the line tables of a one-statement module: a line may start before each member
LineTables ==
    {SortedSeq({0} \cup breaks) : breaks \in SUBSET {2 * j - 1 : j \in 1..MaxMembers}}

\* one line per statement
LinePerStatement(n) == [i \in 1..(IF n = 0 THEN 1 ELSE n) |-> StatementStart(i)]

(* Modules whose export is a class or an object literal with any members *)
ClassModule(members, lineStarts) ==
    SourceFile(<<ClassDeclaration("UserController", {"ExportKeyword", "DefaultKeyword"},
                                  members, 0)>>, lineStarts)

ObjectModule(members, lineStarts) ==
    SourceFile(<<ExportAssignment(ObjectLiteral(members, 0), 0)>>, lineStarts)

(* Modules whose export statement is an assignment chain *)
RECURSIVE Chain(_, _)
Chain(lefts, target) ==
    IF Len(lefts) = 1
    THEN Binary(lefts[1], "=", target)
    ELSE Binary(Head(lefts), "=", Chain(Tail(lefts), target))

RECURSIVE ChainLefts(_, _)
ChainLefts(at, n) ==
    IF n = 1 THEN {<<ModuleExports(at)>>, <<Id("exports", at)>>}
    ELSE {Append(lefts, left) :
             lefts \in ChainLefts(at, n - 1), left \in {Id("exports", at), Id("a", at)}}

ChainTargets(at) ==
    {ClassExpression(<<>>, at),
     ClassExpression(<<Method("index", {}, TRUE, MemberStart(at, 1)),
                       Method("secret", {"PrivateKeyword"}, TRUE, MemberStart(at, 2))>>, at),
     ObjectLiteral(<<Method("index", {}, TRUE, MemberStart(at, 1)),
                     Method("store", {}, TRUE, MemberStart(at, 2))>>, at),
     Id("UserController", at), Id("Missing", at),
     FunctionExpression(at), NumericLiteral(at)}

\* what may stand before the export statement
ChainPreambles ==
    {<<>>,
     <<ClassDeclaration("UserController", {},
                        <<Method("index", {}, TRUE, MemberStart(0, 1))>>, 0)>>,
     <<VariableStatement({}, <<VariableDeclaration("UserController",
            ObjectLiteral(<<Method("store", {}, TRUE, MemberStart(0, 1))>>, 0), 0)>>, 0)>>}

ChainModule(preamble, lefts, target) ==
    SourceFile(Append(preamble, ExpressionStatement(Chain(lefts, target))),
               LinePerStatement(Len(preamble) + 1))

(* Modules of any top-level statements *)
StatementsAt(at) ==
    {ExpressionStatement(Binary(ModuleExports(at), "=",
        ClassExpression(<<Method("index", {}, TRUE, MemberStart(at, 1))>>, at))),
     ExpressionStatement(Binary(ModuleExports(at), "=", NumericLiteral(at))),
     ExpressionStatement(Binary(ModuleExports(at), "=", Id("UserController", at))),
     ExpressionStatement(Binary(Id("exports", at), "==", Id("UserController", at))),
     ExpressionStatement(Binary(ModuleExports(at), "=",
        Binary(Id("a", at), "||",
               ObjectLiteral(<<Method("index", {}, TRUE, MemberStart(at, 1))>>, at)))),
     ClassDeclaration("UserController", {"ExportKeyword", "DefaultKeyword"},
        <<Method("index", {}, TRUE, MemberStart(at, 1)),
          Method("secret", {"PrivateKeyword"}, TRUE, MemberStart(at, 2))>>, at),
     ClassDeclaration("UserController", {},
        <<Method("show", {}, TRUE, MemberStart(at, 1))>>, at),
     ClassDeclaration("Named", {"ExportKeyword"},
        <<Method("index", {}, TRUE, MemberStart(at, 1))>>, at),
     ExportAssignment(Id("b", at), at),
     VariableStatement({}, <<VariableDeclaration("UserController",
        ClassExpression(<<Method("update", {}, TRUE, MemberStart(at, 1))>>, at), at)>>, at),
     VariableStatement({}, <<VariableDeclaration("UserController", Null, at)>>, at),
     VariableStatement({}, <<VariableDeclaration("a", Id("UserController", at), at),
                             VariableDeclaration("b", Id("a", at), at)>>, at)}

RECURSIVE StatementLists(_)
StatementLists(n) ==
    IF n = 0 THEN {<<>>}
    ELSE {Append(statements, statement) :
             statements \in StatementLists(n - 1),
             statement \in StatementsAt(StatementStart(n))}

StatementModule(statements) == SourceFile(statements, LinePerStatement(Len(statements)))

----------------------------------------------------------------------------
(* The texts of the cache's specification and what the parser makes of them *)

TextClass    == <<"C">>   \* export default class UserController { index, private secret }
TextObject   == <<"O">>   \* module.exports = exports = { index () {}, store () {} }
TextFunction == <<"F">>   \* module.exports = function () {}
TextNamed    == <<"N">>   \* export class Named { index () {} }
TextDeep     == <<"D">>   \* nested so deep that the parser overflows its stack
Texts == {TextClass, TextObject, TextFunction, TextNamed, TextDeep}

\* the one text of the pipeline's specification
TextModule == <<"M">>

\* the source texts callers pass: the texts, bare or inside whitespace
Sources == Texts \cup {<<"\n">> \o TextClass \o <<" ", "\n">>}
ModuleSources == {<<"\n">> \o TextModule \o <<"\n">>}

NoOptions == [filename |-> Undefined, scriptTarget |-> Undefined]
OptionChoices ==
    {NoOptions, [filename |-> "routes.json", scriptTarget |-> "ES2018"]}

\* the parse of a text as TypeScript (any filename but a .json one)
ParseTypeScript(text) ==
    IF text = TextClass
    THEN Parsed(SourceFile(
            <<ClassDeclaration("UserController", {"ExportKeyword", "DefaultKeyword"},
                <<Method("index", {"PublicKeyword", "AsyncKeyword"}, TRUE, MemberStart(0, 1)),
                  Method("secret", {"PrivateKeyword"}, TRUE, MemberStart(0, 2))>>, 0)>>,
            <<0, 1, 3>>))
    ELSE IF text = TextObject
    THEN Parsed(SourceFile(
            <<ExpressionStatement(Chain(<<ModuleExports(0), Id("exports", 0)>>,
                ObjectLiteral(<<Method("index", {}, TRUE, MemberStart(0, 1)),
                                Method("store", {}, TRUE, MemberStart(0, 2))>>, 0)))>>,
            <<0>>))
    ELSE IF text = TextFunction
    THEN Parsed(SourceFile(
            <<ExpressionStatement(Binary(ModuleExports(0), "=", FunctionExpression(0)))>>,
            <<0>>))
    ELSE IF text = TextNamed
    THEN Parsed(SourceFile(
            <<ClassDeclaration("Named", {"ExportKeyword"},
                <<Method("index", {}, TRUE, MemberStart(0, 1))>>, 0)>>, <<0>>))
    ELSE ParserFault

\* the parse of a text as JSON (a .json filename): one expression statement
\* holding a literal, never an export
ParseJson(text) ==
    IF text = TextDeep
    THEN ParserFault
    ELSE Parsed(SourceFile(<<ExpressionStatement(ObjectLiteral(<<>>, 0))>>, <<0>>))

ParserTable ==
    [input \in {"anonymous", "routes.json"} \X Texts \X {"ES2018"} |->
        IF input[1] = "routes.json" THEN ParseJson(input[2]) ELSE ParseTypeScript(input[2])]

\* ts.createSourceFile(filename, contents, scriptTarget)
Parse(filename, contents, scriptTarget) ==
    IF contents = TextModule
    THEN (IF filename = "routes.json" THEN ParseJson(contents) ELSE Parsed(fixture))
    ELSE ParserTable[<<filename, contents, scriptTarget>>]

\* createSourceFile without the try / catch: the parser's exception goes on
createSourceFileNoCatch(contents, options) ==
    LET outcome == Parse(options.filename, contents, options.scriptTarget)
    IN  [raised |-> outcome.threw, file |-> outcome.file]

\* try { return ts.createSourceFile(...) } catch (error) { return null }
createSourceFile(contents, options) ==
    LET outcome == Parse(options.filename, contents, options.scriptTarget)
    IN  IF outcome.threw
        THEN [raised |-> FALSE, file |-> NullSourceFile]
        ELSE [raised |-> FALSE, file |-> outcome.file]

----------------------------------------------------------------------------
(* extract *)

\* the enumerator taking every function-like candidate for a class
enumerateFunctionsAsClasses(sourceFile, exportExpression) ==
    IF exportExpression = Null
    THEN [result |-> Absent, store |-> TRUE]
    ELSE IF exportExpression.kind \in
              {"ClassExpression", "ClassDeclaration", "FunctionExpression"}
    THEN [result |-> Output("class", extractClassMethods(sourceFile, exportExpression)),
          store |-> TRUE]
    ELSE IF isObjectLiteralExpression(exportExpression)
    THEN [result |-> Output("object", extractObjectLiteralMethods(sourceFile, exportExpression)),
          store |-> TRUE]
    ELSE [result |-> Absent, store |-> FALSE]

\* The end of extract: what it returns for the final export expression, and
\* whether it stores that in the cache (the last `return null` does not).
enumerate(sourceFile, exportExpression) ==
    IF exportExpression = Null
    THEN [result |-> Absent, store |-> TRUE]
    ELSE IF isClassExpression(exportExpression) \/ isClassDeclaration(exportExpression)
    THEN [result |-> Output("class", extractClassMethods(sourceFile, exportExpression)),
          store |-> TRUE]
    ELSE IF isObjectLiteralExpression(exportExpression)
    THEN [result |-> Output("object", extractObjectLiteralMethods(sourceFile, exportExpression)),
          store |-> TRUE]
    ELSE [result |-> Absent, store |-> FALSE]

\* getExportExpression, then the unwrapping of an export assignment
locate(sourceFile) ==
    LET exportExpression == getExportExpression(sourceFile)
    IN  IF exportExpression # Null /\ isExportAssignment(exportExpression)
        THEN expressionOf(exportExpression)
        ELSE exportExpression

\* the resolution of an identifier, then the unwinding of a binary expression
resolve(sourceFile, located) ==
    LET resolved == IF located # Null /\ isIdentifier(located)
                    THEN resolveIdentifier(sourceFile, located.text)
                    ELSE located
    IN  IF resolved # Null /\ isBinaryExpression(resolved)
        THEN findBinaryExpressionBranch(resolved, 0)
        ELSE resolved

\* what a call did: its arguments, the value returned, the cache key, the
\* normalized options, whether the cache answered, whether the parser ran, and
\* the export expression as first located and as finally resolved
Trace(source, given, result, key, options, hit, parsed, located, candidate) ==
    [source |-> source, given |-> given, result |-> result, made |-> TRUE,
     key |-> key, options |-> options, hit |-> hit, parsed |-> parsed,
     located |-> located, candidate |-> candidate]

\* extract on an Extractor whose cache is lru: the cache afterwards, and the trace
Done(lru, trace) == [lru |-> lru, trace |-> trace]

extract(lru, source, options) ==
    LET key == trim(source)
        normalizedOptions == normalizeOptions(options)
    IN  IF lruHas(lru, key)
        THEN Done(lruGet(lru, key).lru,
                  Trace(source, options, lruGet(lru, key).value, key, normalizedOptions,
                        TRUE, FALSE, Null, Null))
        ELSE LET made == createSourceFile(key, normalizedOptions)
                 sourceFile == made.file
                 located == locate(sourceFile)
                 exportExpression == resolve(sourceFile, located)
                 outcome == enumerate(sourceFile, exportExpression)
             IN  IF made.raised
                 THEN Done(lru, Trace(source, options, Thrown, key, normalizedOptions,
                                      FALSE, TRUE, Null, Null))
                 ELSE IF sourceFile = NullSourceFile
                 THEN Done(lruSet(lru, key, Absent),
                           Trace(source, options, Absent, key, normalizedOptions,
                                 FALSE, TRUE, Null, Null))
                 ELSE Done(IF outcome.store THEN lruSet(lru, key, outcome.result) ELSE lru,
                           Trace(source, options, outcome.result, key, normalizedOptions,
                                 FALSE, TRUE, located, exportExpression))

----------------------------------------------------------------------------
(* The state machine *)

NoCall == [Trace(<<>>, NoOptions, Absent, <<>>, normalizeOptions(NoOptions),
                 FALSE, FALSE, Null, Null) EXCEPT !.made = FALSE]

\* The call in progress: where it stands in extract (pc), the source it was
\* given, the index of a loop over sourceFile.statements (i), the export
\* expression as located and as it is now, and the arguments of the running
\* call of findBinaryExpressionBranch.  A call of findBinaryExpressionBranch
\* returns what the call it makes returns, so only the running call is kept.
Run(pc, source, i, located, expression, frame) ==
    [pc |-> pc, source |-> source, i |-> i, located |-> located,
     expression |-> expression, frame |-> frame]

Frame(expression, level) == [expression |-> expression, level |-> level]
NoFrame == Frame(Null, 0)

\* no call in progress
Idle == Run("idle", <<>>, 0, Null, Null, NoFrame)

\* a new Extractor, no call made; the module under test is empty
Init ==
    /\ fixture = SourceFile(<<>>, <<0>>)
    /\ cache = NewQuickLRU
    /\ call = NoCall
    /\ earlier = NoCall
    /\ run = Idle

\* a new Extractor and a module, of any syntax tree, to extract
InitModule ==
    /\ \/ \E n \in 0..MaxMembers : \E members \in ClassBodies(0, n) :
             \E lineStarts \in LineTables : fixture = ClassModule(members, lineStarts)
       \/ \E n \in 0..MaxMembers : \E members \in ObjectBodies(0, n) :
             \E lineStarts \in LineTables : fixture = ObjectModule(members, lineStarts)
       \/ \E preamble \in ChainPreambles : \E n \in 1..MaxHops :
             \E lefts \in ChainLefts(StatementStart(Len(preamble) + 1), n) :
                \E target \in ChainTargets(StatementStart(Len(preamble) + 1)) :
                   fixture = ChainModule(preamble, lefts, target)
       \/ \E n \in 0..MaxStatements : \E statements \in StatementLists(n) :
             fixture = StatementModule(statements)
    /\ cache = NewQuickLRU
    /\ call = NoCall
    /\ earlier = NoCall
    /\ run = Idle

\* extractor.extract(source, options); the call it follows may be the one
\* that is kept in `earlier`
Extract(source, options) ==
    /\ LET done == extract(cache, source, options)
       IN  /\ cache' = done.lru
           /\ call' = done.trace
    /\ earlier' \in (IF earlier.made THEN {earlier} ELSE {earlier, call})
    /\ UNCHANGED <<fixture, run>>

\* new Extractor().extract(source)
FreshExtract(source) ==
    /\ LET done == extract(NewQuickLRU, source, NoOptions)
       IN  /\ cache' = done.lru
           /\ call' = done.trace
    /\ earlier' = NoCall
    /\ UNCHANGED <<fixture, run>>

Next == \E source \in Sources, options \in OptionChoices : Extract(source, options)

NextModule == \E source \in ModuleSources : FreshExtract(source)

Spec == Init /\ [][Next]_vars

SpecModule == InitModule /\ [][NextModule]_vars

----------------------------------------------------------------------------
(* What the claims speak of *)

\* the source file the parser made in the last call
CallFile == Parse(call.options.filename, call.key, call.options.scriptTarget).file

\* the last call ran the pipeline on a parsed source file
Extracted == call.made /\ call.parsed /\ call.result # Thrown /\ CallFile # NullSourceFile

\* the statements of the last call's source file that a matcher accepts
MatchingStatements ==
    {i \in Indices(CallFile.statements) :
        \/ findCommonJsExportExpression(CallFile.statements[i]) # Null
        \/ findEsmExportExpression(CallFile.statements[i]) # Null}

\* an assignment expression, the number of "=" of a chain and its last right-hand side
IsAssignment(expression) == isBinaryExpression(expression) /\ expression.text = "="

RECURSIVE Hops(_)
Hops(expression) ==
    IF IsAssignment(expression) THEN 1 + Hops(rightOf(expression)) ELSE 0

RECURSIVE Target(_)
Target(expression) ==
    IF IsAssignment(expression) THEN Target(rightOf(expression)) ELSE expression

\* the module's export statement is an assignment to module.exports / exports
ExportIsChain ==
    /\ Extracted
    /\ MatchingStatements # {}
    /\ LET statement == CallFile.statements[Least(MatchingStatements)]
       IN  /\ isExpressionStatement(statement)
           /\ IsAssignment(expressionOf(statement))
           /\ findCommonJsExportExpression(statement) # Null

ExportChain == expressionOf(CallFile.statements[Least(MatchingStatements)])

IsClass(node) == isClassDeclaration(node) \/ isClassExpression(node)

\* the names of the methods of a result
Names(methods) == [k \in 1..Len(methods) |-> methods[k].name]
\* the names of a sequence of named members
MemberNames(members) == [k \in 1..Len(members) |-> nameOf(members[k]).text]

\* C1: when the export statement is `module.exports = exports = Name` and Name
\* is a top-level class declaration of the module, extract returns kind
\* "class" with the public methods of that class.
C1_ChainToClassName ==
    (/\ ExportIsChain
     /\ Hops(ExportChain) = 2
     /\ isPropertyAccessExpression(leftOf(ExportChain))
     /\ isIdentifier(leftOf(rightOf(ExportChain)))
     /\ leftOf(rightOf(ExportChain)).text = "exports"
     /\ isIdentifier(Target(ExportChain))
     /\ \E i \in Indices(CallFile.statements) :
           /\ isClassDeclaration(CallFile.statements[i])
           /\ CallFile.statements[i].text = Target(ExportChain).text)
    => \E i \in Indices(CallFile.statements) :
           /\ isClassDeclaration(CallFile.statements[i])
           /\ CallFile.statements[i].text = Target(ExportChain).text
           /\ call.result.kind = "class"
           /\ Names(call.result.methods) =
                 MemberNames(SelectSeq(membersOf(CallFile.statements[i]),
                     LAMBDA m : /\ isMethodDeclaration(m)
                                /\ isIdentifier(nameOf(m))
                                /\ m.modifiers \cap {"PrivateKeyword", "ProtectedKeyword"} = {}))

\* C2: when the export statement is an assignment chain of 4 or more hops,
\* extract returns Absent, whatever the last right-hand side is.
C2_LongChainAbsent ==
    (ExportIsChain /\ Hops(ExportChain) >= 4) => call.result = Absent

\* the methods the enumerator yields for an inline class or object literal
MethodsOf(target) ==
    IF IsClass(target)
    THEN extractClassMethods(CallFile, target)
    ELSE extractObjectLiteralMethods(CallFile, target)

\* C3: when the export statement is an assignment chain of 1, 2 or 3 hops that
\* ends in an inline class expression or an object literal, extract returns
\* that target's kind and exactly the methods the enumerator yields for it.
C3_ShortChainResolvesTarget ==
    (/\ ExportIsChain
     /\ Hops(ExportChain) \in 1..3
     /\ (isClassExpression(Target(ExportChain))
            \/ isObjectLiteralExpression(Target(ExportChain))))
    => /\ call.result.kind =
             (IF isClassExpression(Target(ExportChain)) THEN "class" ELSE "object")
       /\ call.result.methods = MethodsOf(Target(ExportChain))

\* a chain of 3 hops ending in a class expression with a method was extracted
C3_Witness ==
    /\ ExportIsChain
    /\ Hops(ExportChain) = 3
    /\ isClassExpression(Target(ExportChain))
    /\ call.result.kind = "class"
    /\ Len(call.result.methods) >= 1

\* the members a filter keeps: method declarations with an identifier for a name
NamedMethods(node) ==
    SelectSeq(node.kids, LAMBDA m : isMethodDeclaration(m) /\ isIdentifier(nameOf(m)))

Marked(member) == member.modifiers \cap {"PrivateKeyword", "ProtectedKeyword"} # {}

\* C4: for a class target the methods are those of the named method members
\* that are marked neither private nor protected (no marked member among
\* them, no unmarked one missing); for an object-literal target they are
\* those of all named method members, marked or not.
C4_VisibilityFilter ==
    Extracted =>
       /\ IsClass(call.candidate) =>
             Names(call.result.methods) =
                MemberNames(SelectSeq(NamedMethods(call.candidate), LAMBDA m : ~Marked(m)))
       /\ isObjectLiteralExpression(call.candidate) =>
             Names(call.result.methods) = MemberNames(NamedMethods(call.candidate))

\* a class with a private and an unmarked method gave the unmarked one alone
C4_Witness ==
    /\ Extracted
    /\ IsClass(call.candidate)
    /\ \E i, j \in Indices(NamedMethods(call.candidate)) :
          /\ Marked(NamedMethods(call.candidate)[i])
          /\ ~Marked(NamedMethods(call.candidate)[j])
    /\ Len(call.result.methods) = 1

\* C8: in a class or object result the methods follow the declaration order
\* of the target's members (they are met, one after the other, among the
\* members, each with the 1-based line its member starts on), every lineno is
\* at least 1 and the linenos never decrease along the list.
C8_DeclarationOrderAndLines ==
    (Extracted /\ call.result.kind \in {"class", "object"}) =>
       LET methods == call.result.methods
           members == call.candidate.kids
       IN  /\ \E f \in [1..Len(methods) -> 1..Len(members)] :
                 /\ \A k, l \in 1..Len(methods) : k < l => f[k] < f[l]
                 /\ \A k \in 1..Len(methods) :
                       /\ isMethodDeclaration(members[f[k]])
                       /\ isIdentifier(nameOf(members[f[k]]))
                       /\ nameOf(members[f[k]]).text = methods[k].name
                       /\ methods[k].lineno =
                             1 + Cardinality({n \in Indices(CallFile.lineStarts) :
                                     /\ n > 1
                                     /\ CallFile.lineStarts[n] <= members[f[k]].start})
           /\ \A k \in 1..Len(methods) : methods[k].lineno >= 1
           /\ \A k \in 1..(Len(methods) - 1) : methods[k].lineno <= methods[k + 1].lineno

\* two methods that start on different lines were listed
C8_Witness ==
    /\ Extracted
    /\ call.result.kind \in {"class", "object"}
    /\ Len(call.result.methods) = 2
    /\ call.result.methods[1].lineno < call.result.methods[2].lineno

\* C9: extract returns kind "class" exactly when the final export expression is
\* a class declaration or class expression, kind "object" exactly when it is
\* an object literal, and Absent for anything else; it returns no other kind.
C9_KindMatchesCandidate ==
    call.made =>
       /\ call.result.kind \in {"class", "object", "null"}
       /\ call.result.kind = "null" => call.result = Absent
       /\ Extracted =>
             /\ call.result.kind = "class" <=> IsClass(call.candidate)
             /\ call.result.kind = "object" <=> isObjectLiteralExpression(call.candidate)

\* a module whose export resolves to a function expression gave Absent
C9_Witness ==
    /\ Extracted
    /\ call.candidate.kind = "FunctionExpression"
    /\ call.result = Absent

\* C10: the located export is the value of the first top-level statement that
\* a matcher accepts, whatever follows it; without such a statement nothing
\* is located and extract returns Absent.
C10_FirstMatchWins ==
    Extracted =>
       IF MatchingStatements = {}
       THEN call.located = Null /\ call.result = Absent
       ELSE LET first == CallFile.statements[Least(MatchingStatements)]
            IN  /\ call.located \in {findCommonJsExportExpression(first),
                                     findEsmExportExpression(first)} \ {Null}
                /\ findCommonJsExportExpression(first) # Null =>
                      call.located = findCommonJsExportExpression(first)
                /\ call.located =
                      locate(SourceFile(SubSeq(CallFile.statements, 1,
                                               Least(MatchingStatements)),
                                        CallFile.lineStarts))

\* `module.exports = 5` came first and a default-exported class after it:
\* the number was located and extract returned Absent
C10_Witness ==
    /\ Extracted
    /\ Cardinality(MatchingStatements) >= 2
    /\ call.located.kind = "NumericLiteral"
    /\ \E i \in MatchingStatements : isClassDeclaration(CallFile.statements[i])
    /\ call.result = Absent

\* the parser threw in a call
ParserThrew(trace) ==
    /\ trace.made
    /\ trace.parsed
    /\ Parse(trace.options.filename, trace.key, trace.options.scriptTarget).threw

\* C5: no extract call lets an exception out; a call in which the parser threw
\* returns Absent and leaves the Extractor with that answer in a cache that
\* later calls can go on using.
C5_ParserFaultGivesAbsent ==
    /\ call.made => call.result # Thrown
    /\ earlier.made => earlier.result # Thrown
    /\ ParserThrew(call) =>
          /\ call.result = Absent
          /\ lruHas(cache, call.key)
          /\ lruGet(cache, call.key).value = Absent
    /\ cache.size < CacheMaxSize
    /\ \A key \in DOMAIN cache.cache \cup DOMAIN cache.oldCache :
          lruGet(cache, key).value.kind \in {"class", "object", "null"}

\* the parser threw in one call, and a later call on the same Extractor
\* returned a class
C5_Witness ==
    /\ ParserThrew(earlier)
    /\ earlier.result = Absent
    /\ call.made
    /\ call.result.kind = "class"

\* C6: two calls on one Extractor with the same text and the same options
\* return equal results, whatever calls were made before or between them.
C6_Deterministic ==
    (/\ earlier.made
     /\ call.made
     /\ call.source = earlier.source
     /\ call.given = earlier.given)
    => call.result = earlier.result

\* C7: a call that follows a call with the same trimmed text returns the
\* result of that call and does not run the parser.
C7_RepeatServedFromCache ==
    [][(call.made /\ call'.key = call.key)
          => (call'.result = call.result /\ ~call'.parsed)]_vars

\* a method-shaped member: a method declaration with an identifier for a name
\* and a function body
MethodShaped(member) ==
    /\ isMethodDeclaration(member)
    /\ isIdentifier(nameOf(member))
    /\ member.body

\* C11: every method record of a class or object result stands for a member
\* of the target of its own (records in the order of their members) that is
\* method-shaped: a method declaration with an identifier name and a body.
\* Constructors, properties, accessors, computed names and bodyless methods
\* give no record.
C11_OnlyMethodShapedMembers ==
    (Extracted /\ call.result.kind \in {"class", "object"}) =>
       LET methods == call.result.methods
           members == call.candidate.kids
       IN  \E f \in [1..Len(methods) -> 1..Len(members)] :
              /\ \A k, l \in 1..Len(methods) : k < l => f[k] < f[l]
              /\ \A k \in 1..Len(methods) :
                    /\ MethodShaped(members[f[k]])
                    /\ nameOf(members[f[k]]).text = methods[k].name

\* `to` is `from` or is reached from it through right operands of "=" alone
RECURSIVE ThroughAssignments(_, _)
ThroughAssignments(from, to) ==
    \/ from = to
    \/ IsAssignment(from) /\ ThroughAssignments(rightOf(from), to)

\* C12: the expression statement taken as the export is an assignment
\* (operator "="), and the final export expression is reached from the located
\* one through assignments alone: a binary expression with another operator
\* is neither taken as the export statement nor unwound to its right operand.
C12_OnlyAssignmentsCount ==
    (Extracted /\ MatchingStatements # {}) =>
       LET first == CallFile.statements[Least(MatchingStatements)]
       IN  /\ isExpressionStatement(first) => IsAssignment(expressionOf(first))
           /\ (isBinaryExpression(call.located) /\ call.candidate # Null) =>
                 ThroughAssignments(call.located, call.candidate)

\* the top-level statements of the last call's source file that define a
\* name: a class declaration of that name, or a variable statement with a
\* declaration of that name
Definitions(name) ==
    {i \in Indices(CallFile.statements) :
        LET statement == CallFile.statements[i]
        IN  \/ isClassDeclaration(statement) /\ statement.text = name
            \/ /\ isVariableStatement(statement)
               /\ \E d \in Indices(statement.kids) : nameOf(statement.kids[d]).text = name}

\* what a defining statement gives for the name: the class declaration, or the
\* initializer of the first declaration of the name, Null when it has none
DefinitionValue(statement, name) ==
    IF isClassDeclaration(statement)
    THEN statement
    ELSE LET d == Least({k \in Indices(statement.kids) :
                            nameOf(statement.kids[k]).text = name})
         IN  IF Len(statement.kids[d].kids) = 2 THEN statement.kids[d].kids[2] ELSE Null

\* C13: a located identifier is resolved once, to what the first top-level
\* definition of its name in source order gives (Absent when the name has no
\* definition or no initializer); a value that is itself an identifier stays
\* the final expression and extract returns Absent; an expression that is
\* located and is no identifier (and no binary expression) is left as it is.
C13_ResolvesOnceFirstDefinition ==
    (Extracted /\ call.located # Null) =>
       IF isIdentifier(call.located)
       THEN LET name == call.located.text
            IN  IF Definitions(name) = {}
                THEN call.candidate = Null /\ call.result = Absent
                ELSE LET value == DefinitionValue(
                                     CallFile.statements[Least(Definitions(name))], name)
                     IN  ~isBinaryExpression(value) =>
                            /\ call.candidate = value
                            /\ (value = Null \/ isIdentifier(value)) => call.result = Absent
       ELSE ~isBinaryExpression(call.located) => call.candidate = call.located

\* `export default b` with `const a = UserController, b = a` and a top-level
\* class UserController: b was resolved to the identifier a, and no further
C13_Witness ==
    /\ Extracted
    /\ isIdentifier(call.located)
    /\ call.located.text = "b"
    /\ isIdentifier(call.candidate)
    /\ call.candidate.text = "a"
    /\ \E i \in Indices(CallFile.statements) :
          /\ isClassDeclaration(CallFile.statements[i])
          /\ CallFile.statements[i].text = "UserController"
    /\ call.result = Absent

----------------------------------------------------------------------------
(* extract, one step at a time: a new Extractor's call on the module under  *)
(* test, with each turn of a loop and each call of the Unwinder a step.     *)

RunKey == trim(run.source)
RunOptions == normalizeOptions(NoOptions)
RunFile == createSourceFile(RunKey, RunOptions).file

\* the entry of extract: trim, the cache lookup, createSourceFile
Begin(source) ==
    /\ run.pc = "idle"
    /\ LET key == trim(source)
           file == createSourceFile(key, RunOptions).file
       IN  IF lruHas(cache, key)
           THEN /\ cache' = lruGet(cache, key).lru
                /\ call' = Trace(source, NoOptions, lruGet(cache, key).value, key,
                                 RunOptions, TRUE, FALSE, Null, Null)
                /\ run' = [Idle EXCEPT !.pc = "done", !.source = source]
           ELSE IF file = NullSourceFile
           THEN /\ cache' = lruSet(cache, key, Absent)
                /\ call' = Trace(source, NoOptions, Absent, key, RunOptions,
                                 FALSE, TRUE, Null, Null)
                /\ run' = [Idle EXCEPT !.pc = "done", !.source = source]
           ELSE /\ run' = Run("getExportExpression", source, 1, Null, Null, NoFrame)
                /\ UNCHANGED <<cache, call>>
    /\ UNCHANGED <<fixture, earlier>>

\* one turn of the loop of getExportExpression
GetExportExpressionStep ==
    /\ run.pc = "getExportExpression"
    /\ run' = IF run.i > Len(RunFile.statements)
              THEN [run EXCEPT !.pc = "located", !.expression = Null]
              ELSE IF exportOfStatement(RunFile.statements[run.i]) # Null
              THEN [run EXCEPT !.pc = "located",
                               !.expression = exportOfStatement(RunFile.statements[run.i])]
              ELSE [run EXCEPT !.i = run.i + 1]
    /\ UNCHANGED <<fixture, cache, call, earlier>>

\* the unwrapping of an export assignment, and the test for an identifier
Located ==
    /\ run.pc = "located"
    /\ LET exportExpression ==
               IF run.expression # Null /\ isExportAssignment(run.expression)
               THEN expressionOf(run.expression)
               ELSE run.expression
       IN  run' = [run EXCEPT !.located = exportExpression,
                              !.expression = exportExpression,
                              !.i = 1,
                              !.pc = IF exportExpression # Null /\ isIdentifier(exportExpression)
                                     THEN "resolveIdentifier"
                                     ELSE "unwind"]
    /\ UNCHANGED <<fixture, cache, call, earlier>>

\* one turn of the loop of resolveIdentifier
ResolveIdentifierStep ==
    /\ run.pc = "resolveIdentifier"
    /\ run' = IF run.i > Len(RunFile.statements)
              THEN [run EXCEPT !.pc = "unwind", !.expression = Null]
              ELSE LET child == RunFile.statements[run.i]
                       identifier == run.expression.text
                   IN  IF isClassDeclaration(child) /\ child.text # NoName
                          /\ child.text = identifier
                       THEN [run EXCEPT !.pc = "unwind", !.expression = child]
                       ELSE IF isVariableStatement(child)
                               /\ matchingDeclaration(child, identifier) # Null
                       THEN [run EXCEPT !.pc = "unwind",
                                !.expression =
                                    initializerOf(matchingDeclaration(child, identifier))]
                       ELSE [run EXCEPT !.i = run.i + 1]
    /\ UNCHANGED <<fixture, cache, call, earlier>>

\* the test for a binary expression, and the first call of the Unwinder
Unwind ==
    /\ run.pc = "unwind"
    /\ run' = IF run.expression # Null /\ isBinaryExpression(run.expression)
              THEN [run EXCEPT !.pc = "findBinaryExpressionBranch",
                               !.frame = Frame(run.expression, 0)]
              ELSE [run EXCEPT !.pc = "enumerate"]
    /\ UNCHANGED <<fixture, cache, call, earlier>>

\* a recursive call on the same expression
recursiveCallSameBranch(frame) == Frame(frame.expression, frame.level)

\* this.findBinaryExpressionBranch(expression.right, level++): the callee
\* gets the right operand and the value of level before the increment
recursiveCall(frame) == Frame(rightOf(frame.expression), frame.level)

\* the body of one call of findBinaryExpressionBranch
FindBinaryExpressionBranchStep ==
    /\ run.pc = "findBinaryExpressionBranch"
    /\ run' = IF run.frame.level = 3
              THEN [run EXCEPT !.pc = "enumerate", !.expression = Null, !.frame = NoFrame]
              ELSE IF isBinaryExpression(rightOf(run.frame.expression))
              THEN [run EXCEPT !.frame = recursiveCall(run.frame)]
              ELSE [run EXCEPT !.pc = "enumerate",
                               !.expression = rightOf(run.frame.expression),
                               !.frame = NoFrame]
    /\ UNCHANGED <<fixture, cache, call, earlier>>

\* the end of extract: the null check, the class and object branches, the
\* last return
Enumerate ==
    /\ run.pc = "enumerate"
    /\ LET outcome == enumerate(RunFile, run.expression)
       IN  /\ cache' = IF outcome.store THEN lruSet(cache, RunKey, outcome.result) ELSE cache
           /\ call' = Trace(run.source, NoOptions, outcome.result, RunKey, RunOptions,
                            FALSE, TRUE, run.located, run.expression)
    /\ run' = [run EXCEPT !.pc = "done"]
    /\ UNCHANGED <<fixture, earlier>>

\* the statements of the modules whose call is taken step by step: exports
\* by name, by an expression to unwind and by `export default`, and the
\* statements the loops pass over or stop at
StepStatementsAt(at) ==
    {ExpressionStatement(Binary(ModuleExports(at), "=", Id("UserController", at))),
     ExpressionStatement(Binary(ModuleExports(at), "=",
        Binary(Id("a", at), "||",
               ObjectLiteral(<<Method("index", {}, TRUE, MemberStart(at, 1))>>, at)))),
     ClassDeclaration("UserController", {},
        <<Method("show", {}, TRUE, MemberStart(at, 1))>>, at),
     ClassDeclaration("Named", {"ExportKeyword"},
        <<Method("index", {}, TRUE, MemberStart(at, 1))>>, at),
     ExportAssignment(Id("b", at), at),
     VariableStatement({}, <<VariableDeclaration("a", Id("UserController", at), at),
                             VariableDeclaration("b", Id("a", at), at)>>, at)}

RECURSIVE StepStatementLists(_)
StepStatementLists(n) ==
    IF n = 0 THEN {<<>>}
    ELSE {Append(statements, statement) :
             statements \in StepStatementLists(n - 1),
             statement \in StepStatementsAt(StatementStart(n))}

\* a new Extractor and a module to extract step by step: an assignment chain
\* of any length after any preamble, or any list of statements
InitSteps ==
    /\ \/ \E preamble \in ChainPreambles : \E n \in 1..MaxHops :
             \E lefts \in ChainLefts(StatementStart(Len(preamble) + 1), n) :
                \E target \in ChainTargets(StatementStart(Len(preamble) + 1)) :
                   fixture = ChainModule(preamble, lefts, target)
       \/ \E n \in 0..MaxStatements : \E statements \in StepStatementLists(n) :
             fixture = StatementModule(statements)
    /\ cache = NewQuickLRU
    /\ call = NoCall
    /\ earlier = NoCall
    /\ run = Idle

StepsOfCall ==
    \/ GetExportExpressionStep
    \/ Located
    \/ ResolveIdentifierStep
    \/ Unwind
    \/ FindBinaryExpressionBranchStep
    \/ Enumerate

NextSteps == (\E source \in ModuleSources : Begin(source)) \/ StepsOfCall

\* a call that has begun goes on running until it returns
SpecSteps == InitSteps /\ [][NextSteps]_vars /\ WF_vars(StepsOfCall)

\* C14: every extract call that has begun ends, with a class result, an object
\* result or Absent, whatever the syntax tree and however deep its assignment
\* chain; in particular the recursion of the Unwinder ends.
C14_EveryCallTerminates ==
    (run.pc # "idle") ~>
        (run.pc = "done" /\ call.made /\ call.result.kind \in {"class", "object", "null"})

\* a call on a chain of 5 hops, unwound through 4 calls of the Unwinder,
\* ended with a class result
C14_Witness ==
    /\ run.pc = "done"
    /\ isBinaryExpression(run.located)
    /\ Hops(run.located) >= 4
    /\ call.made
    /\ call.result.kind = "class"

====
